---- MODULE Spec2Model ----
(***************************************************************************)
(* Model of the audio relay's frame buffer (src/buffer.py, AudioBuffer).   *)
(*                                                                         *)
(* The buffer wraps an asyncio.Queue(maxsize=max_size).  Tasks run on one  *)
(* event loop, so a coroutine runs atomically between two awaits; every    *)
(* action below is one such atomic stretch.  put() has no await that       *)
(* suspends; get() awaits asyncio.wait_for(queue.get(), timeout), which on *)
(* Python 3.9 - 3.11 runs queue.get() in an inner task and on Python 3.12+ *)
(* runs it inline (test_setup.py requires Python >= 3.9, so both builds    *)
(* are possible; the variable wait_for_inline selects one).                *)
(*                                                                         *)
(* Frames are opaque to the buffer; the model numbers them 1, 2, 3, ...    *)
(* in the order they are passed to put().  Time is counted in ticks of one *)
(* second, the default timeout of get().                                   *)
(*                                                                         *)
(* The reconnect handling of the streamer (src/streaming.py,               *)
(* AudioStreamer) is modelled next to it: the connection flags, the        *)
(* reconnect counter and one record per running reconnect handler.         *)
(***************************************************************************)
EXTENDS Integers, Sequences, FiniteSets, TLC

\* ---------------------------------------------------------------- bounds
MaxFrames == 3          \* number of put() calls explored
MaxTime == 2            \* ticks of the clock explored
MaxStarts == 1          \* number of start() calls explored
MaxCapacity == 2        \* largest max_size explored
MaxCount == 6           \* largest counter value the health check is applied to
MaxAttempts == 2        \* largest max_reconnect_attempts explored
MaxHandlers == 2        \* reconnect handlers running at the same time

\* ------------------------------------------------------ program constants
GetTimeout == 1         \* get(timeout=1.0), in ticks

\* max_size values the buffer is constructed with: main.py passes the
\* configured buffer_size unvalidated, and asyncio.Queue treats every
\* maxsize <= 0 alike, as "no limit"
MaxSizes == 0..MaxCapacity

NoFrame == 0            \* None, the "no data" result of get()
Silence == -1           \* b'\x00' * (frame_size * channels * 2)

IdleLimit == 60         \* is_healthy: "if stats['idle_time'] > 60"
DropRateNum == 2        \* is_healthy: "if drop_rate > 0.2", as 2 / 10
DropRateDen == 10

NoSnapshot == [size |-> -1]   \* get_stats() has not been called yet

DefaultMaxAttempts == 10      \* self.max_reconnect_attempts = 10
Endpoints == {"source", "target"}
Handlers == 1..MaxHandlers
\* the coroutines run() starts as tasks
Tasks == {"capture", "broadcast", "monitor"}
FreeHandler == [ep |-> "none", pc |-> "free"]

\* the attributes class AudioBuffer defines
AudioBufferAttrs ==
    {"__init__", "start", "stop", "put", "get", "get_stats", "reset_stats",
     "_monitor_health", "is_healthy"}

VARIABLES
    max_size,           \* self.max_size
    queue,              \* self.queue (asyncio.Queue), oldest frame first
    stats,              \* self.stats
    running,            \* self.running
    monitor_task,       \* self._monitor_task: 0 is None, k the k-th task created
    monitors,           \* the _monitor_health tasks that have not finished
    now,                \* time.time()
    wait_for_inline,    \* TRUE: asyncio.wait_for awaits inline (Python 3.12+)
    cpc,                \* position of the consumer inside get()
    deadline,           \* time at which the current get() times out
    held,               \* frame dequeued by the inner queue.get(), not yet returned
    lastGet,            \* what the last completed get() returned, and from where
    stop_awaits,        \* the monitor task a suspended stop() awaits, 0 if none
    nextFrame,          \* the frame the next put() is called with
    lastPut,            \* which branch the last put() took
    delivered,          \* history: frames returned by get(), in order
    evicted,            \* history: frames discarded by put() on overflow
    snapshot,           \* the dict the last get_stats() call returned
    healthy,            \* what the last is_healthy() call returned, "none" at first
    is_streaming,       \* AudioStreamer.is_streaming
    connected,          \* source_connected and target_connected
    reconnect_attempts, \* AudioStreamer.reconnect_attempts
    max_reconnect_attempts,
    join_fails,         \* the endpoints whose voice chat refuses every re-join
    handlers,           \* the running handle_*_reconnect coroutines
    start_pc,           \* position of AudioStreamer.start()
    stop_pc,            \* position of AudioStreamer.stop()
    joins,              \* history: re-joins tried per endpoint since it last joined
    signals,            \* history: stream-end/kicked events per endpoint (0, 1, many)
    gave_up,            \* history: the endpoint whose handler ended the relay
    leaves,             \* history: leave_group_call calls per endpoint (0, 1, many)
    tasks,              \* position of capture_audio, broadcast_audio, monitor_health
    run_pc,             \* position of AudioStreamer.run()
    handed,             \* history: the frames passed to send_target_frame
    bot_pc,             \* position of main() in AudioRelayBot.start()/stop()
    bot_running,        \* AudioRelayBot.running
    sig_stop            \* the stop() task created by signal_handler

vars == <<max_size, queue, stats, running, monitor_task, monitors, now,
          wait_for_inline, cpc, deadline, held, lastGet, stop_awaits,
          nextFrame,
          lastPut, delivered, evicted, snapshot, healthy, is_streaming,
          connected, reconnect_attempts, max_reconnect_attempts, join_fails,
          handlers, start_pc, stop_pc, joins, signals, gave_up, leaves,
          tasks, run_pc, handed, bot_pc, bot_running, sig_stop>>

bufferVars == <<queue, stats>>
getVars == <<cpc, deadline, held, lastGet, delivered>>
lifeVars == <<running, monitor_task, monitors, stop_awaits>>
putVars == <<nextFrame, lastPut, evicted>>
obsVars == <<snapshot, healthy>>
\* what no operation that changes the buffer writes: the parameters fixed at
\* construction, the streamer's own state, and the results handed to the
\* callers of the two queries
relayVars == <<leaves, tasks, run_pc, handed>>
botVars == <<bot_pc, bot_running, sig_stop>>
streamerVars == <<is_streaming, connected, reconnect_attempts,
                  max_reconnect_attempts, join_fails, handlers, start_pc,
                  stop_pc, joins, signals, gave_up, relayVars, botVars>>
paramVars == <<max_size, wait_for_inline, streamerVars>>
fixedVars == <<paramVars, obsVars>>

Range(s) == {s[i] : i \in 1..Len(s)}

\* ------------------------------------------------------- asyncio.Queue
\* Queue.full(): a queue built with maxsize <= 0 is never full
full(q, cap) == IF cap <= 0 THEN FALSE ELSE Len(q) >= cap

\* Queue.empty()
empty(q) == Len(q) = 0

\* Queue.get_nowait() on a non-empty queue: pops the left end of the deque
get_nowait_lifo(q) == [item |-> q[Len(q)], queue |-> SubSeq(q, 1, Len(q) - 1)]
get_nowait(q) == [item |-> Head(q), queue |-> Tail(q)]

\* ------------------------------------------------------- AudioBuffer
\* __init__: the statistics of a new buffer
NewStats(t) == [received |-> 0, sent |-> 0, dropped |-> 0, last_activity |-> t]

\* the eviction step of put(): get_nowait() and dropped += 1, or nothing
\* when the queue turned out empty (QueueEmpty is swallowed)
evict_none(q, st) == [queue |-> q, stats |-> st, gone |-> {}]
evict_uncounted(q, st) ==
    IF empty(q) THEN [queue |-> q, stats |-> st, gone |-> {}]
    ELSE [queue |-> get_nowait(q).queue, stats |-> st,
          gone |-> {get_nowait(q).item}]
evict(q, st) ==
    IF empty(q) THEN [queue |-> q, stats |-> st, gone |-> {}]
    ELSE [queue |-> get_nowait(q).queue,
          stats |-> [st EXCEPT !.dropped = @ + 1],
          gone |-> {get_nowait(q).item}]

\* put(frame) at time t on a queue of capacity cap
put_drop_newest(q, st, f, cap, t) ==
    IF ~full(q, cap)
    THEN [queue |-> Append(q, f),
          stats |-> [st EXCEPT !.received = @ + 1, !.last_activity = t],
          gone |-> {}, branch |-> "inserted"]
    ELSE [queue |-> q,
          stats |-> [st EXCEPT !.received = @ + 1, !.dropped = @ + 1],
          gone |-> {f}, branch |-> "evicted"]
put(q, st, f, cap, t) ==
    IF ~full(q, cap)
    THEN [queue |-> Append(q, f),
          stats |-> [st EXCEPT !.received = @ + 1, !.last_activity = t],
          gone |-> {}, branch |-> "inserted"]
    ELSE LET e == evict(q, st) IN
         IF ~full(e.queue, cap)
         THEN [queue |-> Append(e.queue, f),
               stats |-> [e.stats EXCEPT !.received = @ + 1],
               gone |-> e.gone, branch |-> "evicted"]
         ELSE [queue |-> e.queue,
               stats |-> [e.stats EXCEPT !.dropped = @ + 1],
               gone |-> e.gone, branch |-> "dropped_new"]

\* ------------------------------------------------------------ initial state
\* no operation has been called yet
BufferIdle ==
    /\ running = FALSE
    /\ monitor_task = 0
    /\ monitors = {}
    /\ cpc = "idle"
    /\ deadline = 0
    /\ held = NoFrame
    /\ lastGet = [frame |-> NoFrame, via |-> "none"]
    /\ stop_awaits = 0
    /\ nextFrame = 1
    /\ lastPut = "none"
    /\ delivered = <<>>
    /\ evicted = {}
    /\ snapshot = NoSnapshot
    /\ healthy = "none"

\* AudioRelayBot.__init__: "self.running = False"; main() has not called
\* start() and no signal has arrived
BotNew ==
    /\ bot_pc = "constructed"
    /\ bot_running = FALSE
    /\ sig_stop = "none"

\* AudioStreamer.__init__, apart from max_reconnect_attempts; run() has not
\* been called, and the bot that owns the streamer is new
StreamerNew ==
    /\ is_streaming = FALSE
    /\ connected = [e \in Endpoints |-> FALSE]
    /\ reconnect_attempts = 0
    /\ handlers = [h \in Handlers |-> FreeHandler]
    /\ start_pc = "constructed"
    /\ stop_pc = "idle"
    /\ joins = [e \in Endpoints |-> 0]
    /\ signals = [e \in Endpoints |-> 0]
    /\ gave_up = "none"
    /\ leaves = [e \in Endpoints |-> 0]
    /\ tasks = [t \in Tasks |-> "none"]
    /\ run_pc = "idle"
    /\ handed = {}
    /\ BotNew

StreamerConstructed ==
    /\ StreamerNew
    /\ max_reconnect_attempts = DefaultMaxAttempts
    /\ join_fails = {}

Init ==
    /\ max_size \in MaxSizes
    /\ wait_for_inline \in BOOLEAN
    /\ queue = <<>>
    /\ now = 0
    /\ stats = NewStats(0)
    /\ BufferIdle
    /\ StreamerConstructed

\* ------------------------------------------------------------------ time
\* a task that is ready to run runs before a whole second passes
TaskReady == cpc \in {"started", "woken", "holding"} \/ stop_awaits # 0

Tick ==
    /\ now < MaxTime
    /\ ~TaskReady
    /\ now' = now + 1
    /\ UNCHANGED <<fixedVars, bufferVars, getVars, lifeVars, putVars>>

\* ------------------------------------------------------------------- put
\* put(frame): runs to completion without suspending; put_nowait wakes the
\* getter future of a consumer suspended in queue.get()
Put ==
    /\ nextFrame <= MaxFrames
    /\ LET r == put(queue, stats, nextFrame, max_size, now) IN
       /\ queue' = r.queue
       /\ stats' = r.stats
       /\ evicted' = evicted \cup r.gone
       /\ lastPut' = r.branch
       /\ cpc' = IF cpc = "waiting" /\ r.branch # "dropped_new"
                 THEN "woken" ELSE cpc
    /\ nextFrame' = nextFrame + 1
    /\ UNCHANGED <<fixedVars, now, lifeVars, deadline, held, lastGet, delivered>>

\* ------------------------------------------------------------------- get
\* the statements after the await in get(): count the frame and return it
Returned(f, via) ==
    /\ stats' = [stats EXCEPT !.sent = @ + 1, !.last_activity = now]
    /\ delivered' = Append(delivered, f)
    /\ lastGet' = [frame |-> f, via |-> via]
    /\ held' = NoFrame
    /\ cpc' = "idle"

\* get() is called.  Inline wait_for: queue.get() runs at once, returning a
\* frame without suspending or suspending on a getter future.  Task-based
\* wait_for: queue.get() is scheduled as a task and the caller suspends.
GetCall ==
    /\ cpc = "idle"
    /\ now + GetTimeout <= MaxTime
    /\ deadline' = now + GetTimeout
    /\ IF wait_for_inline
       THEN IF empty(queue)
            THEN /\ cpc' = "waiting"
                 /\ UNCHANGED <<bufferVars, held, lastGet, delivered>>
            ELSE /\ queue' = get_nowait(queue).queue
                 /\ Returned(get_nowait(queue).item, "idle")
       ELSE /\ cpc' = "started"
            /\ UNCHANGED <<bufferVars, held, lastGet, delivered>>
    /\ UNCHANGED <<fixedVars, now, lifeVars, putVars>>

\* queue.get() runs (first step of the inner task, or resumption after its
\* getter future was resolved): "while self.empty()" suspends again, else
\* get_nowait() takes the oldest frame
GetRun ==
    /\ cpc \in {"started", "woken"}
    /\ IF empty(queue)
       THEN /\ cpc' = "waiting"
            /\ UNCHANGED <<bufferVars, held, lastGet, delivered>>
       ELSE /\ queue' = get_nowait(queue).queue
            /\ IF wait_for_inline
               THEN Returned(get_nowait(queue).item, cpc)
               ELSE /\ held' = get_nowait(queue).item
                    /\ cpc' = "holding"
                    /\ UNCHANGED <<stats, lastGet, delivered>>
    /\ UNCHANGED <<fixedVars, now, lifeVars, putVars, deadline>>

\* task-based wait_for resumes with the finished inner task's result
GetReturn ==
    /\ cpc = "holding"
    /\ Returned(held, "holding")
    /\ UNCHANGED <<fixedVars, now, lifeVars, putVars, deadline, queue>>

\* the timeout fires while queue.get() is suspended on its getter future
\* (resolved or not): queue.get() is cancelled, leaves the queue alone, and
\* get() returns None
GetTimedOut_early ==
    /\ cpc \in {"waiting", "woken"}
    /\ lastGet' = [frame |-> NoFrame, via |-> cpc]
    /\ cpc' = "idle"
    /\ UNCHANGED <<fixedVars, now, lifeVars, putVars, deadline, bufferVars,
                   held, delivered>>
GetTimedOut_lossy ==
    /\ cpc \in {"waiting", "woken"}
    /\ now >= deadline
    /\ lastGet' = [frame |-> NoFrame, via |-> cpc]
    /\ cpc' = "idle"
    /\ queue' = IF cpc = "woken" /\ ~empty(queue)
                THEN get_nowait(queue).queue ELSE queue
    /\ UNCHANGED <<fixedVars, now, lifeVars, putVars, deadline, stats,
                   held, delivered>>
GetTimedOut ==
    /\ cpc \in {"waiting", "woken"}
    /\ now >= deadline
    /\ lastGet' = [frame |-> NoFrame, via |-> cpc]
    /\ cpc' = "idle"
    /\ UNCHANGED <<fixedVars, now, lifeVars, putVars, deadline, bufferVars,
                   held, delivered>>

\* ------------------------------------------------------- start and stop
\* start(): sets running and creates a _monitor_health task
Start ==
    /\ monitor_task < MaxStarts
    /\ running' = TRUE
    /\ monitor_task' = monitor_task + 1
    /\ monitors' = monitors \cup {monitor_task + 1}
    /\ UNCHANGED <<fixedVars, now, bufferVars, getVars, putVars, stop_awaits>>

\* start() where it may be called once more than in the other
\* specifications, so that a second start() before stop() is among the runs
StartAgain ==
    /\ monitor_task < MaxStarts + 1
    /\ running' = TRUE
    /\ monitor_task' = monitor_task + 1
    /\ monitors' = monitors \cup {monitor_task + 1}
    /\ UNCHANGED <<fixedVars, now, bufferVars, getVars, putVars, stop_awaits>>

\* _monitor_health ends: cancelled by stop() (CancelledError breaks the
\* loop), or its loop finds running False after a sleep
MonitorExit ==
    /\ \E t \in monitors :
         /\ t = stop_awaits \/ ~running
         /\ monitors' = monitors \ {t}
    /\ UNCHANGED <<fixedVars, now, bufferVars, getVars, putVars, running,
                   monitor_task, stop_awaits>>

\* "while not self.queue.empty(): self.queue.get_nowait()"
drained(q) == <<>>

\* stop() up to "await self._monitor_task"; when there is no live task to
\* wait for, the await does not suspend and the queue is cleared at once
StopCall ==
    /\ stop_awaits = 0
    /\ running' = FALSE
    /\ IF monitor_task \in monitors
       THEN /\ stop_awaits' = monitor_task
            /\ UNCHANGED queue
       ELSE /\ stop_awaits' = 0
            /\ queue' = drained(queue)
    /\ UNCHANGED <<fixedVars, now, stats, getVars, putVars, monitor_task,
                   monitors>>

\* the cancelled monitor task has ended and stop() resumes: clears the queue
StopResume_reset ==
    /\ stop_awaits # 0
    /\ stop_awaits \notin monitors
    /\ queue' = drained(queue)
    /\ stats' = NewStats(now)
    /\ stop_awaits' = 0
    /\ UNCHANGED <<fixedVars, now, getVars, putVars, running,
                   monitor_task, monitors>>
StopResume ==
    /\ stop_awaits # 0
    /\ stop_awaits \notin monitors
    /\ queue' = drained(queue)
    /\ stop_awaits' = 0
    /\ UNCHANGED <<fixedVars, now, stats, getVars, putVars, running,
                   monitor_task, monitors>>

\* ------------------------------------------------- get_stats, is_healthy
\* get_stats() at time t
get_stats(q, st, cap, t) ==
    [size |-> Len(q), max_size |-> cap, received |-> st.received,
     sent |-> st.sent, dropped |-> st.dropped,
     idle_time |-> t - st.last_activity]

\* "dropped / received > 0.2" for received > 0, in exact arithmetic
drop_rate_reached(s) == s.dropped * DropRateDen >= DropRateNum * s.received
drop_rate_exceeded(s) == s.dropped * DropRateDen > DropRateNum * s.received

\* is_healthy() on the dict s that get_stats() returned
is_healthy(s) ==
    IF s.idle_time > IdleLimit THEN FALSE
    ELSE IF s.received > 0
         THEN (IF drop_rate_exceeded(s) THEN FALSE ELSE TRUE)
         ELSE TRUE

GetStats_touch ==
    /\ snapshot' = get_stats(queue, stats, max_size, now)
    /\ stats' = [stats EXCEPT !.last_activity = now]
    /\ UNCHANGED <<paramVars, healthy, now, queue, getVars,
                   lifeVars, putVars>>
GetStats ==
    /\ snapshot' = get_stats(queue, stats, max_size, now)
    /\ UNCHANGED <<paramVars, healthy, now, bufferVars,
                   getVars, lifeVars, putVars>>

IsHealthy ==
    /\ healthy' = IF is_healthy(get_stats(queue, stats, max_size, now))
                  THEN "True" ELSE "False"
    /\ UNCHANGED <<paramVars, snapshot, now, bufferVars,
                   getVars, lifeVars, putVars>>

\* ------------------------------------------------------------ reset_stats
ResetStats ==
    /\ stats' = NewStats(now)
    /\ stats' # stats
    /\ UNCHANGED <<fixedVars, now, queue, getVars, putVars, lifeVars>>

\* ------------------------------------------------ AudioStreamer: joining
\* what the streamer's connection handling leaves alone: everything of the
\* buffer, the tasks of run(), and the bot
bufferAll == <<max_size, wait_for_inline, queue, stats, now, getVars,
               lifeVars, putVars, obsVars, relayVars, botVars>>

Min(a, b) == IF a < b THEN a ELSE b

\* start() up to the first await of join_source: both PyTgCalls clients are
\* started and the event handlers registered
StreamerStart ==
    /\ start_pc = "constructed"
    /\ start_pc' = "joining_source"
    /\ UNCHANGED <<bufferAll, is_streaming, connected, reconnect_attempts,
                   max_reconnect_attempts, join_fails, handlers, stop_pc,
                   joins, signals, gave_up>>

\* join_source() inside start(): joined, or the exception aborts start()
StartJoinSource ==
    /\ start_pc = "joining_source"
    /\ \/ /\ connected' = [connected EXCEPT !["source"] = TRUE]
          /\ reconnect_attempts' = 0
          /\ start_pc' = "settling"
       \/ /\ start_pc' = "failed"
          /\ UNCHANGED <<connected, reconnect_attempts>>
    /\ UNCHANGED <<bufferAll, is_streaming, max_reconnect_attempts,
                   join_fails, handlers, stop_pc, joins, signals, gave_up>>

\* after the 2 s pause, join_target() inside start(); on success start()
\* sets is_streaming
StartJoinTarget ==
    /\ start_pc = "settling"
    /\ \/ /\ connected' = [connected EXCEPT !["target"] = TRUE]
          /\ reconnect_attempts' = 0
          /\ is_streaming' = TRUE
          /\ start_pc' = "streaming"
       \/ /\ start_pc' = "failed"
          /\ UNCHANGED <<connected, reconnect_attempts, is_streaming>>
    /\ UNCHANGED <<bufferAll, max_reconnect_attempts, join_fails, handlers,
                   stop_pc, joins, signals, gave_up>>

\* --------------------------------------------- AudioStreamer: reconnecting
\* "if self.reconnect_attempts > self.max_reconnect_attempts"
exhausted_at_limit(a, m) == a >= m
exhausted_late(a, m) == a > m + 1
exhausted(a, m) == a > m

\* handle_source_reconnect / handle_target_reconnect for endpoint e, run by
\* handler h up to its first await: return when not streaming; count the
\* attempt; give up (is_streaming False) or go to sleep for 5 s
Enter(e, h) ==
    IF ~is_streaming
    THEN /\ handlers' = [handlers EXCEPT ![h] = FreeHandler]
         /\ UNCHANGED <<is_streaming, reconnect_attempts, gave_up>>
    ELSE /\ reconnect_attempts' = reconnect_attempts + 1
         /\ IF exhausted(reconnect_attempts + 1, max_reconnect_attempts)
            THEN /\ is_streaming' = FALSE
                 /\ gave_up' = e
                 /\ handlers' = [handlers EXCEPT ![h] = FreeHandler]
            ELSE /\ handlers' = [handlers EXCEPT
                                   ![h] = [ep |-> e, pc |-> "sleep5"]]
                 /\ UNCHANGED <<is_streaming, gave_up>>

\* the endpoint is in its voice chat or was, so its events can arrive
HasJoined(e) == connected[e] \/ signals[e] > 0

FreeSlots == {h \in Handlers : handlers[h].pc = "free"}
Active(e) == {h \in Handlers : handlers[h].pc # "free" /\ handlers[h].ep = e}

\* on_source_stream_end, on_target_stream_end, on_source_kicked,
\* on_target_kicked: clear the flag and run the endpoint's reconnect handler
Disruption ==
    /\ FreeSlots # {}
    /\ \E e \in Endpoints :
         /\ HasJoined(e)
         /\ connected' = [connected EXCEPT ![e] = FALSE]
         /\ signals' = [signals EXCEPT ![e] = Min(@ + 1, 2)]
         /\ Enter(e, CHOOSE h \in FreeSlots : \A g \in FreeSlots : h <= g)
    /\ UNCHANGED <<bufferAll, max_reconnect_attempts, join_fails, start_pc,
                   stop_pc, joins>>

\* on_source_left: clears the flag, starts nothing
SourceLeft ==
    /\ connected["source"]
    /\ connected' = [connected EXCEPT !["source"] = FALSE]
    /\ UNCHANGED <<bufferAll, is_streaming, reconnect_attempts,
                   max_reconnect_attempts, join_fails, handlers, start_pc,
                   stop_pc, joins, signals, gave_up>>

\* the 5 s sleep of handler h ends and it calls join_source / join_target
WakeH(h) ==
    /\ handlers[h].pc = "sleep5"
    /\ handlers' = [handlers EXCEPT ![h].pc = "joining"]
    /\ joins' = [joins EXCEPT ![handlers[h].ep] =
                    Min(@ + 1, max_reconnect_attempts + 1)]
    /\ UNCHANGED <<bufferAll, is_streaming, connected, reconnect_attempts,
                   max_reconnect_attempts, join_fails, start_pc, stop_pc,
                   signals, gave_up>>

\* join_group_call succeeded: the flag is set, the counter reset, and the
\* handler returns
JoinOkH_keep_count(h) ==
    /\ handlers[h].pc = "joining"
    /\ handlers[h].ep \notin join_fails
    /\ connected' = [connected EXCEPT ![handlers[h].ep] = TRUE]
    /\ joins' = [joins EXCEPT ![handlers[h].ep] = 0]
    /\ handlers' = [handlers EXCEPT ![h] = FreeHandler]
    /\ UNCHANGED <<bufferAll, is_streaming, max_reconnect_attempts,
                   join_fails, start_pc, stop_pc, signals, gave_up,
                   reconnect_attempts>>
JoinOkH(h) ==
    /\ handlers[h].pc = "joining"
    /\ handlers[h].ep \notin join_fails
    /\ connected' = [connected EXCEPT ![handlers[h].ep] = TRUE]
    /\ reconnect_attempts' = 0
    /\ joins' = [joins EXCEPT ![handlers[h].ep] = 0]
    /\ handlers' = [handlers EXCEPT ![h] = FreeHandler]
    /\ UNCHANGED <<bufferAll, is_streaming, max_reconnect_attempts,
                   join_fails, start_pc, stop_pc, signals, gave_up>>

\* join_group_call raised: the handler logs and sleeps for 10 s
JoinFailH(h) ==
    /\ handlers[h].pc = "joining"
    /\ handlers' = [handlers EXCEPT ![h].pc = "sleep10"]
    /\ UNCHANGED <<bufferAll, is_streaming, connected, reconnect_attempts,
                   max_reconnect_attempts, join_fails, start_pc, stop_pc,
                   joins, signals, gave_up>>

\* the 10 s sleep ends and the handler calls itself
RetryH(h) ==
    /\ handlers[h].pc = "sleep10"
    /\ Enter(handlers[h].ep, h)
    /\ UNCHANGED <<bufferAll, connected, max_reconnect_attempts, join_fails,
                   start_pc, stop_pc, joins, signals>>

HandlerWake == \E h \in Handlers : WakeH(h)
JoinOk == \E h \in Handlers : JoinOkH(h)
JoinFail == \E h \in Handlers : JoinFailH(h)
HandlerRetry == \E h \in Handlers : RetryH(h)

\* ------------------------------------------------- AudioStreamer: stop
\* "self.buffer.clear()": AudioBuffer defines no clear, the attribute lookup
\* raises AttributeError out of stop()
ClearResult == IF "clear" \in AudioBufferAttrs THEN "done" ELSE "raised"

\* stop() after the source has been dealt with
AfterSource == IF connected["target"] THEN "leaving_target" ELSE ClearResult

\* the queue once stop() has reached position pc
Cleared(pc) == IF pc = "done" THEN <<>> ELSE queue

stopUnchanged == <<max_size, wait_for_inline, stats, now, getVars, lifeVars,
                   putVars, obsVars, connected, reconnect_attempts,
                   max_reconnect_attempts, join_fails, handlers,
                   joins, signals, gave_up, handed>>

\* leave_group_call is invoked when stop() arrives at pc
LeaveCalled(pc) ==
    IF pc = "leaving_source"
    THEN [leaves EXCEPT !["source"] = Min(@ + 1, 2)]
    ELSE IF pc = "leaving_target"
         THEN [leaves EXCEPT !["target"] = Min(@ + 1, 2)]
         ELSE leaves

\* the body of stop() up to its first await: a leave_group_call of a
\* connected endpoint, or none
StopBody ==
    /\ is_streaming' = FALSE
    /\ stop_pc' = IF connected["source"] THEN "leaving_source" ELSE AfterSource
    /\ queue' = Cleared(stop_pc')
    /\ leaves' = LeaveCalled(stop_pc')
    /\ UNCHANGED stopUnchanged

\* stop() called from outside run(), when no other stop() is under way
StreamerStopCall ==
    /\ stop_pc \in {"idle", "done", "raised"}
    /\ StopBody
    /\ UNCHANGED <<start_pc, tasks, run_pc, botVars>>

\* leave_group_call of the source returned or raised (the error is logged)
StreamerLeftSource ==
    /\ stop_pc = "leaving_source"
    /\ stop_pc' = AfterSource
    /\ queue' = Cleared(stop_pc')
    /\ leaves' = LeaveCalled(stop_pc')
    /\ UNCHANGED <<stopUnchanged, is_streaming, start_pc, tasks, run_pc,
                   botVars>>

\* leave_group_call of the target returned or raised
StreamerLeftTarget ==
    /\ stop_pc = "leaving_target"
    /\ stop_pc' = ClearResult
    /\ queue' = Cleared(stop_pc')
    /\ UNCHANGED <<stopUnchanged, is_streaming, start_pc, leaves, tasks,
                   run_pc, botVars>>

\* -------------------------------------------------- AudioStreamer: run
\* what run() and its tasks leave alone when they touch neither the buffer
\* nor the connection state
runRest == <<max_size, wait_for_inline, now, lifeVars,
             max_reconnect_attempts, join_fails, handlers, joins, signals,
             gave_up, botVars>>
runQuiet == <<runRest, obsVars, handed>>

\* run() is called: start() up to its first await
RunCall ==
    /\ run_pc = "idle"
    /\ start_pc = "constructed"
    /\ run_pc' = "starting"
    /\ start_pc' = "joining_source"
    /\ UNCHANGED <<runQuiet, bufferVars, getVars, putVars, is_streaming,
                   connected, reconnect_attempts, stop_pc, leaves, tasks>>

\* join_source() inside run(): joined; or it raises, start() re-raises,
\* run() logs the error and its finally block calls stop()
RunJoinSource ==
    /\ run_pc = "starting"
    /\ start_pc = "joining_source"
    /\ \/ /\ connected' = [connected EXCEPT !["source"] = TRUE]
          /\ reconnect_attempts' = 0
          /\ start_pc' = "settling"
          /\ UNCHANGED <<runQuiet, bufferVars, getVars, putVars,
                         is_streaming, stop_pc, leaves, run_pc>>
       \/ /\ start_pc' = "failed"
          /\ run_pc' = "finally"
          /\ StopBody
    /\ UNCHANGED <<tasks, botVars>>

\* join_target() inside run(): on success start() sets is_streaming and
\* returns, and run() creates its three tasks and awaits them; on failure
\* as for the source
RunJoinTarget ==
    /\ run_pc = "starting"
    /\ start_pc = "settling"
    /\ \/ /\ connected' = [connected EXCEPT !["target"] = TRUE]
          /\ reconnect_attempts' = 0
          /\ is_streaming' = TRUE
          /\ start_pc' = "streaming"
          /\ tasks' = [t \in Tasks |-> "top"]
          /\ run_pc' = "gathering"
          /\ UNCHANGED <<runQuiet, bufferVars, getVars, putVars, stop_pc,
                         leaves>>
       \/ /\ start_pc' = "failed"
          /\ run_pc' = "finally"
          /\ StopBody
          /\ UNCHANGED tasks
    /\ UNCHANGED botVars

\* asyncio.gather returns once all three tasks have ended; run() goes
\* through its finally block into stop()
RunGathered ==
    /\ run_pc = "gathering"
    /\ \A t \in Tasks : tasks[t] = "exited"
    /\ run_pc' = "finally"
    /\ StopBody
    /\ UNCHANGED <<start_pc, tasks, botVars>>

\* capture_audio at "while self.is_streaming": leave the loop; sleep while
\* the source is not connected; look the call up, which finds it or raises
\* NotInGroupCallError (flag cleared, nothing else)
CaptureStep_forever ==
    /\ tasks["capture"] = "top"
    /\ IF ~connected["source"]
       THEN UNCHANGED <<tasks, connected>>
       ELSE \/ /\ tasks' = [tasks EXCEPT !["capture"] = "reading"]
               /\ UNCHANGED connected
            \/ /\ connected' = [connected EXCEPT !["source"] = FALSE]
               /\ UNCHANGED tasks
    /\ UNCHANGED <<runQuiet, bufferVars, getVars, putVars, is_streaming,
                   reconnect_attempts, start_pc, stop_pc, leaves, run_pc>>
CaptureStep ==
    /\ tasks["capture"] = "top"
    /\ IF ~is_streaming
       THEN /\ tasks' = [tasks EXCEPT !["capture"] = "exited"]
            /\ UNCHANGED connected
       ELSE IF ~connected["source"]
            THEN UNCHANGED <<tasks, connected>>
            ELSE \/ /\ tasks' = [tasks EXCEPT !["capture"] = "reading"]
                    /\ UNCHANGED connected
                 \/ /\ connected' = [connected EXCEPT !["source"] = FALSE]
                    /\ UNCHANGED tasks
    /\ UNCHANGED <<runQuiet, bufferVars, getVars, putVars, is_streaming,
                   reconnect_attempts, start_pc, stop_pc, leaves, run_pc>>

\* get_source_frame returned: a frame, which is put into the buffer, or no
\* data; then the 20 ms sleep
CaptureRead ==
    /\ tasks["capture"] = "reading"
    /\ tasks' = [tasks EXCEPT !["capture"] = "top"]
    /\ \/ /\ nextFrame <= MaxFrames
          /\ LET r == put(queue, stats, nextFrame, max_size, now) IN
             /\ queue' = r.queue
             /\ stats' = r.stats
             /\ evicted' = evicted \cup r.gone
             /\ lastPut' = r.branch
          /\ nextFrame' = nextFrame + 1
       \/ UNCHANGED <<bufferVars, putVars>>
    /\ UNCHANGED <<runQuiet, getVars, is_streaming, connected,
                   reconnect_attempts, start_pc, stop_pc, leaves, run_pc>>

\* get() hands the oldest frame to broadcast_audio
Taken ==
    /\ queue' = get_nowait(queue).queue
    /\ stats' = [stats EXCEPT !.sent = @ + 1, !.last_activity = now]
    /\ delivered' = Append(delivered, get_nowait(queue).item)
    /\ lastGet' = [frame |-> get_nowait(queue).item, via |-> "idle"]
    /\ UNCHANGED <<cpc, deadline, held>>

\* broadcast_audio with the result of get() in hand looks the call up:
\* found; not found (the frame is not sent); or NotInGroupCallError (flag
\* cleared, the frame is gone)
Lookup ==
    \/ /\ tasks' = [tasks EXCEPT !["broadcast"] = "sending"]
       /\ handed' = handed \cup {IF lastGet'.frame = NoFrame
                                  THEN Silence ELSE lastGet'.frame}
       /\ UNCHANGED connected
    \/ /\ tasks' = [tasks EXCEPT !["broadcast"] = "top"]
       /\ UNCHANGED <<connected, handed>>
    \/ /\ tasks' = [tasks EXCEPT !["broadcast"] = "top"]
       /\ connected' = [connected EXCEPT !["target"] = FALSE]
       /\ UNCHANGED handed

\* broadcast_audio at "while self.is_streaming": leave the loop; sleep while
\* the target is not connected; else call get(), which returns a queued
\* frame at once or waits
BroadcastStep ==
    /\ tasks["broadcast"] = "top"
    /\ IF ~is_streaming
       THEN /\ tasks' = [tasks EXCEPT !["broadcast"] = "exited"]
            /\ UNCHANGED <<connected, bufferVars, getVars, handed>>
       ELSE IF ~connected["target"]
            THEN UNCHANGED <<tasks, connected, bufferVars, getVars, handed>>
            ELSE IF empty(queue)
                 THEN /\ tasks' = [tasks EXCEPT !["broadcast"] = "waiting"]
                      /\ UNCHANGED <<connected, bufferVars, getVars, handed>>
                 ELSE Taken /\ Lookup
    /\ UNCHANGED <<runRest, obsVars, putVars, is_streaming,
                   reconnect_attempts, start_pc, stop_pc, leaves, run_pc>>

\* get() ends its wait: with a frame that was put meanwhile, or after the
\* timeout with None, for which a silence frame is sent
BroadcastWait ==
    /\ tasks["broadcast"] = "waiting"
    /\ IF empty(queue)
       THEN /\ lastGet' = [frame |-> NoFrame, via |-> "waiting"]
            /\ UNCHANGED <<bufferVars, cpc, deadline, held, delivered>>
       ELSE Taken
    /\ Lookup
    /\ UNCHANGED <<runRest, obsVars, putVars, is_streaming,
                   reconnect_attempts, start_pc, stop_pc, leaves, run_pc>>

\* send_target_frame wrote the frame and returned True
BroadcastSendOk ==
    /\ tasks["broadcast"] = "sending"
    /\ tasks' = [tasks EXCEPT !["broadcast"] = "top"]
    /\ UNCHANGED <<runQuiet, bufferVars, getVars, putVars, is_streaming,
                   connected, reconnect_attempts, start_pc, stop_pc, leaves,
                   run_pc>>

\* the write raised: send_target_frame logs at debug level and returns
\* False, and broadcast_audio does not look at the result
BroadcastSendFailed ==
    /\ tasks["broadcast"] = "sending"
    /\ tasks' = [tasks EXCEPT !["broadcast"] = "top"]
    /\ UNCHANGED <<runQuiet, bufferVars, getVars, putVars, is_streaming,
                   connected, reconnect_attempts, start_pc, stop_pc, leaves,
                   run_pc>>

BroadcastSend == BroadcastSendOk \/ BroadcastSendFailed

\* monitor_health at "while self.is_streaming": leave the loop or sleep 10 s
MonitorStep ==
    /\ tasks["monitor"] = "top"
    /\ tasks' = [tasks EXCEPT !["monitor"] =
                    IF is_streaming THEN "sleeping" ELSE "exited"]
    /\ UNCHANGED <<runQuiet, bufferVars, getVars, putVars, is_streaming,
                   connected, reconnect_attempts, start_pc, stop_pc, leaves,
                   run_pc>>

\* the sleep ends: get_stats() and is_healthy() are called and their
\* results logged, with a warning when the buffer is unhealthy while both
\* endpoints are connected
MonitorWake_halting ==
    /\ tasks["monitor"] = "sleeping"
    /\ tasks' = [tasks EXCEPT !["monitor"] = "top"]
    /\ snapshot' = get_stats(queue, stats, max_size, now)
    /\ healthy' = IF is_healthy(get_stats(queue, stats, max_size, now))
                  THEN "True" ELSE "False"
    /\ is_streaming' = IF healthy' = "False" /\ connected["source"]
                          /\ connected["target"]
                       THEN FALSE ELSE is_streaming
    /\ UNCHANGED <<runRest, handed, bufferVars, getVars, putVars,
                   connected, reconnect_attempts, start_pc, stop_pc, leaves,
                   run_pc>>
MonitorWake ==
    /\ tasks["monitor"] = "sleeping"
    /\ tasks' = [tasks EXCEPT !["monitor"] = "top"]
    /\ snapshot' = get_stats(queue, stats, max_size, now)
    /\ healthy' = IF is_healthy(get_stats(queue, stats, max_size, now))
                  THEN "True" ELSE "False"
    /\ UNCHANGED <<runRest, handed, bufferVars, getVars, putVars,
                   is_streaming, connected, reconnect_attempts, start_pc,
                   stop_pc, leaves, run_pc>>

\* ------------------------------------------------ AudioRelayBot, main()
\* what main(), AudioRelayBot.start and AudioRelayBot.stop leave alone
botQuiet == <<max_size, wait_for_inline, queue, stats, now, getVars, putVars,
              obsVars, stop_awaits, max_reconnect_attempts, join_fails,
              handlers, stop_pc, joins, signals, gave_up, relayVars,
              bot_running>>

\* main() awaits bot.start(): without the session files start() returns
\* False, and the stop() of main's finally block returns at "if not
\* self.running"; with them buffer.start() sets running and creates the
\* buffer's monitor task, and streamer.start() runs up to its first await
BotStart ==
    /\ bot_pc = "constructed"
    /\ \/ /\ bot_pc' = "exited"
          /\ UNCHANGED <<running, monitor_task, monitors, start_pc>>
       \/ /\ running' = TRUE
          /\ monitor_task' = monitor_task + 1
          /\ monitors' = monitors \cup {monitor_task + 1}
          /\ start_pc' = "joining_source"
          /\ bot_pc' = "starting"
    /\ UNCHANGED <<botQuiet, is_streaming, connected, reconnect_attempts,
                   sig_stop>>

\* join_source() inside streamer.start(): joined; or it raises, start()
\* logs "Error starting bot" and returns False, and main's stop() returns at
\* "if not self.running"
BotJoinSource ==
    /\ bot_pc = "starting"
    /\ start_pc = "joining_source"
    /\ \/ /\ connected' = [connected EXCEPT !["source"] = TRUE]
          /\ reconnect_attempts' = 0
          /\ start_pc' = "settling"
          /\ UNCHANGED bot_pc
       \/ /\ start_pc' = "failed"
          /\ bot_pc' = "exited"
          /\ UNCHANGED <<connected, reconnect_attempts>>
    /\ UNCHANGED <<botQuiet, running, monitor_task, monitors, is_streaming,
                   sig_stop>>

\* join_target() inside streamer.start(): on failure as for the source; on
\* success streamer.start() sets is_streaming and returns None, so "if not
\* await self.streamer.start()" logs "Failed to start audio streamer" and
\* start() returns False without setting self.running; main's stop() returns
\* at "if not self.running"
BotJoinTarget ==
    /\ bot_pc = "starting"
    /\ start_pc = "settling"
    /\ \/ /\ connected' = [connected EXCEPT !["target"] = TRUE]
          /\ reconnect_attempts' = 0
          /\ is_streaming' = TRUE
          /\ start_pc' = "streaming"
       \/ /\ start_pc' = "failed"
          /\ UNCHANGED <<connected, reconnect_attempts, is_streaming>>
    /\ bot_pc' = "exited"
    /\ UNCHANGED <<botQuiet, running, monitor_task, monitors, sig_stop>>

\* SIGINT or SIGTERM: signal_handler creates a task for bot.stop()
SignalStop ==
    /\ sig_stop = "none"
    /\ bot_pc \in {"constructed", "starting"}
    /\ sig_stop' = "pending"
    /\ UNCHANGED <<botQuiet, running, monitor_task, monitors, is_streaming,
                   connected, reconnect_attempts, start_pc, bot_pc>>

\* the signal handler's task runs while main() is suspended in start():
\* stop() finds self.running False and returns
SigStopRun ==
    /\ sig_stop = "pending"
    /\ bot_pc = "starting"
    /\ sig_stop' = "returned"
    /\ UNCHANGED <<botQuiet, running, monitor_task, monitors, is_streaming,
                   connected, reconnect_attempts, start_pc, bot_pc>>

\* main() has returned: asyncio.run cancels the tasks that are left (the
\* buffer's monitor task, a stop task that has not run) and closes the loop
LoopShutdown ==
    /\ bot_pc = "exited"
    /\ bot_pc' = "closed"
    /\ monitors' = {}
    /\ sig_stop' = IF sig_stop = "pending" THEN "cancelled" ELSE sig_stop
    /\ UNCHANGED <<botQuiet, running, monitor_task, is_streaming, connected,
                   reconnect_attempts, start_pc>>

\* the events of the voice chats while main() is suspended in start()
BotDisruption == bot_pc = "starting" /\ Disruption
BotSourceLeft == bot_pc = "starting" /\ SourceLeft

\* ---------------------------------------------------------- specifications
Next ==
    \/ Tick
    \/ Put
    \/ GetCall
    \/ GetRun
    \/ GetReturn
    \/ GetTimedOut
    \/ Start
    \/ MonitorExit
    \/ StopCall
    \/ StopResume
    \/ ResetStats

Spec == Init /\ [][Next]_vars

\* a producer calling put and a consumer calling get, nothing else
NextPutGet ==
    \/ Tick
    \/ Put
    \/ GetCall
    \/ GetRun
    \/ GetReturn
    \/ GetTimedOut

SpecPutGet == Init /\ [][NextPutGet]_vars

\* put, get, start and stop without reset_stats (which rewrites only stats,
\* and no step of get reads stats)
NextNoReset ==
    \/ Tick
    \/ Put
    \/ GetCall
    \/ GetRun
    \/ GetReturn
    \/ GetTimedOut
    \/ Start
    \/ MonitorExit
    \/ StopCall
    \/ StopResume

\* the same operations, every interleaving, no scheduling assumed
SpecNoReset == Init /\ [][NextNoReset]_vars

\* the event loop runs every task that is ready (the consumer, a cancelled
\* monitor, a stop() whose awaited task has ended) and time passes
FairSpec ==
    /\ Init /\ [][NextNoReset]_vars
    /\ WF_vars(Tick)
    /\ WF_vars(GetRun)
    /\ WF_vars(GetReturn)
    /\ WF_vars(GetTimedOut)
    /\ WF_vars(MonitorExit)
    /\ WF_vars(StopResume)

\* a producer, a consumer and a task that queries the buffer (the health
\* monitors call get_stats and is_healthy between any two steps of the others)
NextObserve ==
    \/ Tick
    \/ Put
    \/ GetCall
    \/ GetRun
    \/ GetReturn
    \/ GetTimedOut
    \/ Start
    \/ GetStats
    \/ IsHealthy

SpecObserve == Init /\ [][NextObserve]_vars

\* is_healthy() applied to every combination of counters and idle time
\* around its thresholds
InitHealth ==
    /\ max_size = MaxCapacity
    /\ wait_for_inline = FALSE
    /\ queue = <<>>
    /\ now \in 0..(IdleLimit + 2)
    /\ \E r \in 0..MaxCount, d \in 0..MaxCount, a \in 0..1 :
         /\ d <= r
         /\ a <= now
         /\ stats = [received |-> r, sent |-> 0, dropped |-> d,
                     last_activity |-> a]
    /\ BufferIdle
    /\ StreamerConstructed

NextHealth == IsHealthy \/ GetStats

SpecHealth == InitHealth /\ [][NextHealth]_vars

\* the streamer from construction on: start, the events of both voice
\* chats and the reconnect handlers they start, for the smallest limit and
\* the largest one explored, and every set of endpoints that refuse re-joins
InitReconnect ==
    /\ max_size = MaxCapacity
    /\ wait_for_inline = FALSE
    /\ queue = <<>>
    /\ now = 0
    /\ stats = NewStats(0)
    /\ BufferIdle
    /\ StreamerNew
    /\ max_reconnect_attempts \in {1, MaxAttempts}
    /\ join_fails \in SUBSET Endpoints

NextReconnect ==
    \/ StreamerStart
    \/ StartJoinSource
    \/ StartJoinTarget
    \/ Disruption
    \/ SourceLeft
    \/ HandlerWake
    \/ JoinOk
    \/ JoinFail
    \/ HandlerRetry

SpecReconnect == InitReconnect /\ [][NextReconnect]_vars

\* every sleep ends and every join_group_call returns or raises
FairReconnect ==
    /\ SpecReconnect
    /\ WF_vars(StartJoinSource)
    /\ WF_vars(StartJoinTarget)
    /\ \A h \in Handlers :
         /\ WF_vars(WakeH(h))
         /\ WF_vars(JoinOkH(h) \/ JoinFailH(h))
         /\ WF_vars(RetryH(h))

\* reconnecting with stop() called at any time
NextReconnectStop ==
    \/ NextReconnect
    \/ StreamerStopCall
    \/ StreamerLeftSource
    \/ StreamerLeftTarget

\* join_group_call may raise at any call (JoinFailH has no guard), so the
\* runs in which no endpoint is bound to refuse are all the runs there are
InitReconnectStop ==
    /\ InitReconnect
    /\ join_fails = {}

SpecReconnectStop == InitReconnectStop /\ [][NextReconnectStop]_vars

\* the buffer's life cycle: frames put, start() and stop() in any order
NextLifecycle ==
    \/ Put
    \/ StartAgain
    \/ MonitorExit
    \/ StopCall
    \/ StopResume

SpecLifecycle == Init /\ [][NextLifecycle]_vars

\* shutdown: the buffer filled and stopped, the streamer started and stopped
NextShutdown ==
    \/ Put
    \/ Start
    \/ MonitorExit
    \/ StopCall
    \/ StopResume
    \/ StreamerStart
    \/ StartJoinSource
    \/ StartJoinTarget
    \/ StreamerStopCall
    \/ StreamerLeftSource
    \/ StreamerLeftTarget
    \/ SourceLeft

SpecShutdown == Init /\ [][NextShutdown]_vars

\* the relay under run(): start, the three tasks, the events of both voice
\* chats with their reconnect handlers, and the stop() of run()'s finally
\* block.  The source chat carries no audio here (get_source_frame returns
\* no data), so the buffer stays empty, and one reconnect attempt is
\* allowed.
InitRun ==
    /\ max_size = MaxCapacity
    /\ wait_for_inline = FALSE
    /\ queue = <<>>
    /\ now = 0
    /\ stats = NewStats(0)
    /\ running = FALSE /\ monitor_task = 0 /\ monitors = {}
    /\ cpc = "idle" /\ deadline = 0 /\ held = NoFrame
    /\ lastGet = [frame |-> NoFrame, via |-> "none"]
    /\ stop_awaits = 0
    /\ nextFrame = MaxFrames + 1
    /\ lastPut = "none" /\ delivered = <<>> /\ evicted = {}
    /\ snapshot = NoSnapshot /\ healthy = "none"
    /\ StreamerNew
    /\ max_reconnect_attempts = 1
    /\ join_fails = {}

NextRun ==
    \/ RunCall
    \/ RunJoinSource
    \/ RunJoinTarget
    \/ RunGathered
    \/ CaptureStep
    \/ CaptureRead
    \/ BroadcastStep
    \/ BroadcastWait
    \/ BroadcastSend
    \/ MonitorStep
    \/ MonitorWake
    \/ Disruption
    \/ SourceLeft
    \/ HandlerWake
    \/ JoinOk
    \/ JoinFail
    \/ HandlerRetry
    \/ StreamerLeftSource
    \/ StreamerLeftTarget

SpecRun == InitRun /\ [][NextRun]_vars

\* the relay under run() with audio flowing: as InitRun, but the source
\* delivers frames
InitRelay ==
    /\ max_size = MaxCapacity
    /\ wait_for_inline = FALSE
    /\ queue = <<>>
    /\ now = 0
    /\ stats = NewStats(0)
    /\ BufferIdle
    /\ StreamerNew
    /\ max_reconnect_attempts = 1
    /\ join_fails = {}

\* run() and its three tasks while both voice chats stay joined
NextRelay ==
    \/ RunCall
    \/ RunJoinSource
    \/ RunJoinTarget
    \/ CaptureStep
    \/ CaptureRead
    \/ BroadcastStep
    \/ BroadcastWait
    \/ BroadcastSend
    \/ MonitorStep
    \/ MonitorWake
    \/ StreamerLeftSource

SpecRelay == InitRelay /\ [][NextRelay]_vars

\* every sleep ends, every awaited call returns or raises, every task that
\* is ready runs
FairRun ==
    /\ SpecRun
    /\ WF_vars(RunJoinSource)
    /\ WF_vars(RunJoinTarget)
    /\ WF_vars(RunGathered)
    /\ WF_vars(CaptureStep)
    /\ WF_vars(CaptureRead)
    /\ WF_vars(BroadcastStep)
    /\ WF_vars(BroadcastWait)
    /\ WF_vars(BroadcastSend)
    /\ WF_vars(MonitorStep)
    /\ WF_vars(MonitorWake)
    /\ WF_vars(StreamerLeftSource)
    /\ WF_vars(StreamerLeftTarget)
    /\ \A h \in Handlers :
         /\ WF_vars(WakeH(h))
         /\ WF_vars(JoinOkH(h) \/ JoinFailH(h))
         /\ WF_vars(RetryH(h))

\* main(): a constructed AudioRelayBot is started and stopped, with the
\* shutdown signal and the events of the source chat arriving at any time
InitBot ==
    /\ max_size = MaxCapacity
    /\ wait_for_inline = FALSE
    /\ queue = <<>>
    /\ now = 0
    /\ stats = NewStats(0)
    /\ BufferIdle
    /\ StreamerNew
    /\ max_reconnect_attempts = DefaultMaxAttempts
    /\ join_fails = {}

NextBot ==
    \/ BotStart
    \/ BotJoinSource
    \/ BotJoinTarget
    \/ SignalStop
    \/ SigStopRun
    \/ LoopShutdown
    \/ BotDisruption
    \/ BotSourceLeft
    \/ Tick

SpecBot == InitBot /\ [][NextBot]_vars

\* ------------------------------------------------------------------ claims
Last(s) == s[Len(s)]
Puts == nextFrame - 1                 \* number of completed put() calls
NoGetYet == cpc = "idle" /\ lastGet.via = "none"

\* C1: after any sequence of completed put and get calls on a buffer of
\* capacity N >= 1 (no get in progress), received = sent + dropped + queue
\* size.
C1_CountersBalance ==
    (max_size >= 1 /\ cpc = "idle")
        => stats.received = stats.sent + stats.dropped + Len(queue)

\* a quiescent state after frames were delivered, evicted and a get timed out
C1_Witness ==
    /\ max_size >= 1 /\ cpc = "idle"
    /\ stats.sent >= 1 /\ stats.dropped >= 1 /\ Len(queue) >= 1
    /\ lastGet.frame = NoFrame /\ lastGet.via = "waiting"

\* C2: in every reachable state, under any sequence of put, get,
\* reset_stats, start and stop, received >= sent + dropped + queue size.
C2_CountersCoverQueue ==
    stats.received >= stats.sent + stats.dropped + Len(queue)

\* C3: after N+k puts (k >= 1) with no get, on a buffer of capacity N >= 1,
\* dropped = k, received = N+k, and the queue holds the N most recently put
\* frames in their original order.
C3_OverflowKeepsNewest ==
    (max_size >= 1 /\ NoGetYet /\ Puts > max_size)
        => /\ stats.dropped = Puts - max_size
           /\ stats.received = Puts
           /\ Len(queue) = max_size
           /\ queue = [i \in 1..max_size |-> Puts - max_size + i]

\* capacity 2 after puts 1, 2, 3 with no get: the queue is <<2, 3>>
C3_Witness ==
    /\ max_size = 2 /\ NoGetYet /\ Puts = 3
    /\ queue = <<2, 3>> /\ stats.dropped = 1 /\ stats.received = 3

\* C4: the frames returned by get are an order-preserving subsequence of
\* the frames put, none returned twice; every frame put is exactly one of:
\* returned, evicted as the oldest on overflow, still queued (or in the
\* hands of a get that has not returned yet, never once it has returned).
C4_FifoDelivery ==
    /\ \A i, j \in 1..Len(delivered) : i < j => delivered[i] < delivered[j]
    /\ \A i, j \in 1..Len(queue) : i < j => queue[i] < queue[j]
    /\ Range(delivered) \cup evicted \cup Range(queue)
          \cup (IF held = NoFrame THEN {} ELSE {held}) = 1..Puts
    /\ Len(delivered) + Cardinality(evicted) + Len(queue)
          + (IF held = NoFrame THEN 0 ELSE 1) = Puts
    /\ \A e \in evicted : \A i \in 1..Len(queue) : e < queue[i]
    /\ cpc = "idle" => held = NoFrame

\* two frames delivered around an eviction
C4_Witness ==
    /\ Len(delivered) >= 2 /\ evicted # {} /\ cpc = "idle"

\* C5: for every integer max_size, the number of queued frames is at most
\* max_size in every reachable state.
C5_Bounded == Len(queue) <= max_size

\* C6: put(f) runs to completion in one step without an error, full buffer
\* or not, and leaves f as the newest element of the queue.
C6_PutKeepsNewest ==
    [][Put => /\ lastPut' \in {"inserted", "evicted"}
              /\ queue' # <<>>
              /\ Last(queue') = nextFrame]_vars

\* a put on a full buffer has just returned
C6_Witness ==
    /\ lastPut = "evicted" /\ queue # <<>> /\ Last(queue) = Puts
    /\ Len(queue) = max_size

\* C7: the step on which a get returns no data leaves the queue, the
\* counters and last_activity as they were, and that get holds no dequeued
\* frame - also when a put resolved its getter before the timeout was
\* processed.
C7_TimeoutLeavesBuffer ==
    [][(cpc # "idle" /\ cpc' = "idle" /\ lastGet'.frame = NoFrame)
          => /\ queue' = queue
             /\ stats' = stats
             /\ delivered' = delivered
             /\ held = NoFrame /\ held' = NoFrame]_vars

\* a get timed out although a put had already resolved its getter; the
\* frame is still queued
C7_Witness ==
    /\ cpc = "idle" /\ lastGet = [frame |-> NoFrame, via |-> "woken"]
    /\ queue # <<>> /\ Last(queue) = Puts

\* C8: every get eventually returns; it returns no data only once the
\* timeout has elapsed, and only if the queue is empty or the frame arrived
\* while the timed-out getter had not resumed yet.
C8_GetReturns ==
    /\ (cpc # "idle") ~> (cpc = "idle")
    /\ [][(cpc # "idle" /\ cpc' = "idle" /\ lastGet'.frame = NoFrame)
            => /\ now >= deadline
               /\ (empty(queue) \/ cpc = "woken")]_vars

\* a get on an empty buffer returned no data at its deadline
C8_Witness ==
    /\ cpc = "idle" /\ lastGet = [frame |-> NoFrame, via |-> "waiting"]
    /\ now = deadline /\ empty(queue) /\ running

\* C9: put on a stopped buffer (running = FALSE) changes neither the queue
\* nor the counters and last_activity.
C9_PutStoppedNoOp ==
    [][(Put /\ ~running) => (queue' = queue /\ stats' = stats)]_vars

\* C10: get on a stopped buffer (running = FALSE) returns no data at once,
\* without suspending and without dequeuing a frame.
C10_GetStoppedNoData ==
    [][(GetCall /\ ~running)
          => /\ cpc' = "idle"
             /\ lastGet'.frame = NoFrame
             /\ queue' = queue]_vars

\* C11: the shutdown drain -- AudioBuffer.stop clearing the queue, and the
\* buffer clearing step of AudioStreamer.stop -- empties the queue, leaves
\* received, sent and dropped unchanged, and completes without error.
C11_DrainCompletes ==
    [][/\ (StopResume \/ (StopCall /\ stop_awaits' = 0))
            => /\ queue' = <<>>
               /\ stats'.received = stats.received
               /\ stats'.sent = stats.sent
               /\ stats'.dropped = stats.dropped
       /\ ((StreamerStopCall \/ StreamerLeftSource \/ StreamerLeftTarget)
              /\ stop_pc' \in {"done", "raised"})
            => /\ stop_pc' = "done"
               /\ queue' = <<>>
               /\ stats'.received = stats.received
               /\ stats'.sent = stats.sent
               /\ stats'.dropped = stats.dropped]_vars

\* C12: received, sent and dropped never decrease across a step of any
\* operation other than reset_stats (put, get, start, stop, the monitor).
C12_CountersMonotonic ==
    [][(\/ stats'.received < stats.received
        \/ stats'.sent < stats.sent
        \/ stats'.dropped < stats.dropped) => ResetStats]_vars

\* counters that grew through puts, an eviction and a delivery, and that
\* stop() has left standing while it cleared the queue
C12_Witness ==
    /\ stats.received >= 2 /\ stats.dropped >= 1 /\ stats.sent >= 1
    /\ ~running /\ monitor_task # 0 /\ empty(queue)

\* C13: is_healthy() returns False if and only if the idle time exceeds 60
\* seconds or (received > 0 and 5 * dropped > received); it returns True on
\* a buffer whose counters are zero and which was active just now.
C13_HealthyIff ==
    healthy # "none"
        => /\ (healthy = "False") <=>
                \/ now - stats.last_activity > 60
                \/ (stats.received > 0 /\ 5 * stats.dropped > stats.received)
           /\ stats = NewStats(now) => healthy = "True"

\* unhealthy through the drop rate alone, and healthy exactly on the
\* threshold rate of one in five
C13_Witness ==
    /\ healthy = "False"
    /\ now - stats.last_activity <= 60
    /\ stats.received = 5 /\ stats.dropped = 2

\* C14: a call of get_stats() or is_healthy(), in whatever state, changes
\* neither the queue, nor the counters, nor last_activity, nor running (nor
\* the position of a get in progress).
C14_QueriesArePure ==
    [][(GetStats \/ IsHealthy)
          => UNCHANGED <<queue, stats, running, cpc, held, deadline,
                         monitor_task, monitors>>]_vars

\* both queries answered while a get is suspended on the running buffer
C14_Witness ==
    /\ running /\ cpc = "waiting"
    /\ snapshot # NoSnapshot /\ snapshot.received = stats.received
    /\ snapshot.size = Len(queue) /\ snapshot.received >= 1
    /\ healthy = "True"

\* C15: right after a put that inserted its frame (with or without evicting
\* the oldest one) and right after a get that returned a frame,
\* last_activity is the current time.
C15_ActivityStamped ==
    [][(\/ (Put /\ lastPut' \in {"inserted", "evicted"})
        \/ Len(delivered') > Len(delivered))
          => stats'.last_activity = now']_vars

\* C16: every snapshot get_stats() returns satisfies
\* received = sent + dropped + size.
C16_SnapshotsBalance ==
    snapshot # NoSnapshot
        => snapshot.received
             = snapshot.sent + snapshot.dropped + snapshot.size

\* the one disruption the relay has seen is a single signal on e, whose
\* re-join always fails
OnlySignal(e) ==
    /\ e \in join_fails
    /\ signals[e] = 1
    /\ \A o \in Endpoints \ {e} : signals[o] = 0

\* C17: with max_reconnect_attempts = M and one endpoint whose re-join
\* always fails, one disruption signal leads to exactly M join attempts and
\* then to the terminal failure (is_streaming False); there is never an
\* (M+1)-th join attempt.
C17_ReconnectBound ==
    \A e \in Endpoints :
      /\ [](OnlySignal(e)
              => /\ joins[e] <= max_reconnect_attempts
                 /\ gave_up \in {"none", e}
                 /\ gave_up = e
                      => /\ joins[e] = max_reconnect_attempts
                         /\ ~is_streaming
                         /\ Active(e) = {})
      /\ (OnlySignal(e) /\ Active(e) # {})
            ~> (\/ ~OnlySignal(e)
                \/ /\ gave_up = e
                   /\ joins[e] = max_reconnect_attempts
                   /\ ~is_streaming)

\* the target was disrupted once, its re-join failed twice, and the relay
\* gave up
C17_Witness ==
    /\ OnlySignal("target")
    /\ max_reconnect_attempts = 2
    /\ joins["target"] = 2
    /\ gave_up = "target"
    /\ ~is_streaming

\* C18: a disruption signal for an endpoint that is already reconnecting
\* starts no second reconnect sequence: at most one chain of reconnect
\* handler invocations is active per endpoint.
C18_OneSequencePerEndpoint ==
    \A e \in Endpoints : Cardinality(Active(e)) <= 1

\* C19: the attempt counts of source and target are independent: with one
\* reconnect sequence per endpoint, an endpoint gives up only after
\* max_reconnect_attempts failed joins of its own, and its count is never
\* below the joins it has tried since it was last connected.
C19_PerEndpointCounts ==
    (\A o \in Endpoints : signals[o] <= 1)
       => \A e \in Endpoints :
            /\ gave_up = e => joins[e] >= max_reconnect_attempts
            /\ \A h \in Active(e) :
                 handlers[h].pc \in {"joining", "sleep10"}
                    => reconnect_attempts >= joins[e]

\* C20: an endpoint whose re-joins all fail ends in the terminal failure
\* (is_streaming False) after finitely many attempts, whatever the other
\* endpoint does.
C20_NoRetryForever ==
    \A e \in Endpoints :
       (e \in join_fails /\ Active(e) # {}) ~> ~is_streaming

StopEnded == stop_pc \in {"done", "raised"}

\* the three tasks of run() have all left their loops
AllExited == \A t \in Tasks : tasks[t] = "exited"

\* C22: exhausted retries stop the whole relay: once a reconnect handler has
\* found reconnect_attempts > max_reconnect_attempts, eventually the
\* capture, broadcast and monitor tasks have all exited and stop() has run,
\* with every still-connected endpoint left.
C22_ExhaustionStopsRelay ==
    /\ (gave_up # "none") ~> (AllExited /\ StopEnded)
    /\ []((gave_up # "none" /\ StopEnded)
            => \A e \in Endpoints : connected[e] => leaves[e] >= 1)

\* C23: every disconnection of an endpoint while the relay streams is a
\* disruption signal: whenever an endpoint's flag is False while is_streaming
\* is True, a re-join attempt for that endpoint or the relay's terminal stop
\* eventually follows.
C23_DisconnectedReconnects ==
    \A e \in Endpoints :
       (is_streaming /\ ~connected[e])
          ~> (\/ ~is_streaming
              \/ \E h \in Active(e) : handlers[h].pc = "joining")

\* C26: each connection is released exactly once: leave_group_call is
\* invoked at most once per endpoint for any number of stop() calls, and
\* once a stop() has ended every connected endpoint has been left.
C26_ReleasedOnce ==
    \A e \in Endpoints :
       /\ leaves[e] <= 1
       /\ (StopEnded /\ connected[e]) => leaves[e] = 1

\* C27: stop() is idempotent: a stop() called after an earlier stop() has
\* ended raises no error and leaves the counters, the queue, the
\* running/is_streaming flags and the connection flags as they were, and
\* calls nothing a second time.
C27_StopIdempotent ==
    [][/\ (StreamerStopCall /\ StopEnded)
            => /\ stop_pc' = "done"
               /\ UNCHANGED <<queue, stats, is_streaming, connected, leaves>>
       /\ (StopCall /\ ~running /\ monitor_task \notin monitors
                    /\ monitor_task # 0 /\ queue = <<>>)
            => UNCHANGED <<queue, stats, running, stop_awaits>>]_vars

\* C24: a failed write of a frame is a disruption of the destination: the
\* step in which send_target_frame fails clears target_connected and starts
\* handle_target_reconnect.
C24_SendFailureDisrupts ==
    [][BroadcastSendFailed
          => /\ ~connected'["target"]
             /\ \E h \in Handlers :
                  /\ handlers[h].pc = "free"
                  /\ handlers'[h].ep = "target"]_vars

\* C25: if any one of the capture, broadcast and monitor tasks exits, the
\* other two end as well and the relay proceeds to shutdown: a task has
\* exited only when the relay no longer streams, and from then on all three
\* tasks exit and stop() runs to its end.
C25_TasksEndTogether ==
    /\ []((\E t \in Tasks : tasks[t] = "exited") => ~is_streaming)
    /\ (\E t \in Tasks : tasks[t] = "exited") ~> (AllExited /\ StopEnded)

\* one task has exited while the other two are still in their loops
C25_Witness ==
    /\ tasks["monitor"] = "exited"
    /\ tasks["capture"] \in {"top", "reading"}
    /\ tasks["broadcast"] \in {"top", "waiting", "sending"}
    /\ run_pc = "gathering"

C32_NoJoinAfterStop ==
    [][(stop_pc # "idle" /\ ~is_streaming)
          => \A h \in Handlers :
               ~(handlers[h].pc = "sleep5" /\ handlers'[h].pc = "joining")]_vars

\* C37: under every interleaving of disruption events on both endpoints,
\* concurrent reconnect handlers, join successes and failures, and stop(),
\* 0 <= reconnect_attempts <= max_reconnect_attempts + 1.
C37_CounterBounded ==
    /\ reconnect_attempts >= 0
    /\ reconnect_attempts <= max_reconnect_attempts + 1

\* the counter has reached max_reconnect_attempts + 1 while another handler
\* is still reconnecting
C37_Witness ==
    /\ reconnect_attempts = max_reconnect_attempts + 1
    /\ gave_up # "none"
    /\ \E h \in Handlers : handlers[h].pc # "free"

\* C33: cancelling the buffer's health monitor is complete: whenever no
\* stop() is in progress and the buffer is stopped, no health-monitor task of
\* the buffer is alive, for every sequence of start() and stop() calls.
C33_NoMonitorAfterStop ==
    (~running /\ stop_awaits = 0) => monitors = {}

\* C34: put runs without suspending, so for a capacity N >= 1 the insertion
\* after the eviction always succeeds: every put increments received by
\* exactly 1 and dropped by at most 1, and the branch that counts the
\* incoming frame itself as dropped is never taken.
C34_PutAtomic ==
    /\ [][Put => /\ stats'.received = stats.received + 1
                 /\ stats'.dropped <= stats.dropped + 1
                 /\ stats'.dropped >= stats.dropped]_vars
    /\ [](max_size >= 1 => lastPut # "dropped_new")

\* a put on a full buffer has evicted the oldest frame and inserted its own
C34_Witness ==
    /\ max_size >= 1
    /\ lastPut = "evicted"
    /\ stats.dropped >= 1
    /\ Len(queue) = max_size

C35_FramesReachSink == Range(delivered) \subseteq handed

\* C31: health findings are advisory: no step of monitor_health, whatever
\* get_stats() and is_healthy() return, changes is_streaming, running, the
\* connection flags or the reconnect counter, and the relay goes from
\* streaming to not streaming only in a step of stop() or in the step in
\* which a reconnect handler gives up.
C31_HealthAdvisory ==
    [][/\ (MonitorStep \/ MonitorWake)
            => UNCHANGED <<is_streaming, running, connected,
                           reconnect_attempts>>
       /\ (is_streaming /\ ~is_streaming')
            => (stop_pc' # stop_pc \/ gave_up' # gave_up)]_vars

\* monitor_health found the buffer unhealthy with both endpoints connected,
\* and the relay streams on
C31_Witness ==
    /\ healthy = "False"
    /\ connected["source"] /\ connected["target"]
    /\ is_streaming
    /\ tasks["monitor"] = "top"

====
